---- MODULE Spec2Model ----
(***************************************************************************)
(* Model of analyze_distribution.py: the script reads dice rolls from     *)
(* standard input, tallies them and prints a report.                      *)
(*                                                                         *)
(* Texts are sequences of one-character strings.  Real-valued quantities  *)
(* of the report are kept as exact fractions x/y (IEEE rounding is not    *)
(* modelled); a fraction 0/0 stands for NaN.                              *)
(***************************************************************************)
EXTENDS Integers, Sequences, FiniteSets, TLC

VARIABLES pc, isatty, input_text, stdin_state, rolls, stdout, stderr,
          exit_status, exception

vars == <<pc, isatty, input_text, stdin_state, rolls, stdout, stderr,
          exit_status, exception>>

(* ---------------------------- bounds ----------------------------------- *)

MaxTextLen == 4
MaxLen == 5
MaxCallLen == 3

(* ---------------------------- characters ------------------------------- *)

Digits == {"0", "1", "2", "3", "4", "5", "6", "7", "8", "9"}

Letters == {"a", "b", "x", "Z"}

\* the characters accepted by the class [1-6]
DiceDigits == {"1", "2", "3", "4", "5", "6"}

\* the characters the texts on standard input are drawn from
Alphabet == {"1", "6", "7", "a", "_", " ", "-"}

\* \w for a str pattern: alphanumeric characters and the underscore
IsWordChar(c) == c \in Digits \cup Letters \cup {"_"}

\* \b at the gap after the b-th character of t (b = 0: start of the text)
WordBoundary(t, b) ==
    ((b >= 1) /\ IsWordChar(t[b])) # ((b < Len(t)) /\ IsWordChar(t[b + 1]))

\* the pattern without its closing \b
MatchAt_no_closing_boundary(t, p) ==
    /\ WordBoundary(t, p - 1)
    /\ t[p] \in DiceDigits

\* the pattern \b[1-6]\b tried at the p-th character of t
MatchAt(t, p) ==
    /\ WordBoundary(t, p - 1)
    /\ t[p] \in DiceDigits
    /\ WordBoundary(t, p)

\* re.findall: scan left to right, collecting the non-overlapping matches
RECURSIVE FindAllFrom(_, _)
FindAllFrom(t, p) ==
    IF p > Len(t) THEN <<>>
    ELSE IF MatchAt(t, p) THEN <<t[p]>> \o FindAllFrom(t, p + 1)
    ELSE FindAllFrom(t, p + 1)

FindAll(t) == FindAllFrom(t, 1)

\* int(num) for a one-digit string
IntOf(c) ==
    CASE c = "0" -> 0 [] c = "1" -> 1 [] c = "2" -> 2 [] c = "3" -> 3
      [] c = "4" -> 4 [] c = "5" -> 5 [] c = "6" -> 6 [] c = "7" -> 7
      [] c = "8" -> 8 [] c = "9" -> 9

ToRolls(numbers) == [i \in 1..Len(numbers) |-> IntOf(numbers[i])]

\* a bare "except:", which catches SystemExit too
ExceptClauseCatches_bare(exc) == TRUE

\* "except Exception": SystemExit derives from BaseException only
ExceptClauseCatches(exc) == exc # "SystemExit"

(* ---------------------------- report ----------------------------------- *)

\* one printed line: its kind and up to two numbers (a fraction is x/y)
Line(kind, x, y) == [line |-> kind, x |-> x, y |-> y]

\* critical value 11.070, in thousandths
CriticalValueMilli == 11070

\* a tally that stores 1 instead of incrementing
CounterAdd_no_increment(c, k) ==
    [j \in DOMAIN c \cup {k} |-> IF j = k THEN 1 ELSE c[j]]

\* Counter(rolls): one pass, a key is created at its first occurrence
CounterAdd(c, k) ==
    IF k \in DOMAIN c THEN [c EXCEPT ![k] = @ + 1]
    ELSE [j \in DOMAIN c \cup {k} |-> IF j = k THEN 1 ELSE c[j]]

RECURSIVE CounterFrom(_, _, _)
CounterFrom(s, i, c) ==
    IF i > Len(s) THEN c ELSE CounterFrom(s, i + 1, CounterAdd(c, s[i]))

Counter(s) == CounterFrom(s, 1, <<>>)

\* counts[face]: a missing key reads as 0
CounterGet(c, k) == IF k \in DOMAIN c THEN c[k] ELSE 0

\* the deviation left unsquared
ChiSquareComponent_unsquared(count, N) == 6 * count - N

\* (deviation ** 2) / expected_freq, in units of 1/(6 N):
\* deviation = (6 count - N)/6 and expected_freq = N/6
ChiSquareComponent(count, N) == (6 * count - N) * (6 * count - N)

\* the loop "for face in range(1, 7)": rows printed and chi-square summed
RECURSIVE FaceLoop(_, _, _, _)
FaceLoop(face, counts, N, acc) ==
    IF face > 6 THEN acc
    ELSE LET count == CounterGet(counts, face)
         IN FaceLoop(face + 1, counts, N,
                [total |-> acc.total + ChiSquareComponent(count, N),
                 out |-> Append(acc.out, Line("row", face, count))])

\* the two branches of the verdict exchanged
Verdict_swapped(total, N) ==
    IF 1000 * total < CriticalValueMilli * 6 * N THEN "not_fair" ELSE "fair"

\* total_chi_square < 11.070, with total_chi_square = total / (6 N)
Verdict(total, N) ==
    IF 1000 * total < CriticalValueMilli * 6 * N THEN "fair" ELSE "not_fair"

RECURSIVE SumFrom(_, _)
SumFrom(s, i) == IF i > Len(s) THEN 0 ELSE s[i] + SumFrom(s, i + 1)

SumSeq(s) == SumFrom(s, 1)

RECURSIVE SumSquaresFrom(_, _)
SumSquaresFrom(s, i) ==
    IF i > Len(s) THEN 0 ELSE s[i] * s[i] + SumSquaresFrom(s, i + 1)

SumSquares(s) == SumSquaresFrom(s, 1)

RECURSIVE MinFrom(_, _, _)
MinFrom(s, i, m) ==
    IF i > Len(s) THEN m ELSE MinFrom(s, i + 1, IF s[i] < m THEN s[i] ELSE m)

MinOf(s) == MinFrom(s, 2, s[1])

RECURSIVE MaxFrom(_, _, _)
MaxFrom(s, i, m) ==
    IF i > Len(s) THEN m ELSE MaxFrom(s, i + 1, IF s[i] > m THEN s[i] ELSE m)

MaxOf(s) == MaxFrom(s, 2, s[1])

\* insertion of x into the ascending sequence t
RECURSIVE Insert(_, _)
Insert(t, x) ==
    IF Len(t) = 0 THEN <<x>>
    ELSE IF x <= t[1] THEN <<x>> \o t
    ELSE <<t[1]>> \o Insert(Tail(t), x)

RECURSIVE SortFrom(_, _, _)
SortFrom(s, i, t) ==
    IF i > Len(s) THEN t ELSE SortFrom(s, i + 1, Insert(t, s[i]))

Sorted(s) == SortFrom(s, 1, <<>>)

\* np.median, as a fraction over 2: the middle element of the sorted
\* values, or the mean of the two middle ones
MedianTwice(s) ==
    LET n == Len(s)
        t == Sorted(s)
    IN IF n % 2 = 1 THEN 2 * t[(n + 1) \div 2]
       ELSE t[n \div 2] + t[n \div 2 + 1]

\* np.mean, np.median, np.std(ddof=1), min and max.  The std_dev line holds
\* the fraction under the square root, sum((x - mean)^2) / (N - 1), which is
\* 0/0 (NaN) for N = 1
StatLines(s) ==
    LET n == Len(s)
        sm == SumSeq(s)
    IN << Line("mean", sm, n),
          Line("median", MedianTwice(s), 2),
          Line("std_dev", n * SumSquares(s) - sm * sm, n * (n - 1)),
          Line("min_max", MinOf(s), MaxOf(s)) >>

\* np.std with ddof=1 warns on the error stream when N - ddof <= 0
StatWarnings(s) == IF Len(s) <= 1 THEN <<"RuntimeWarning">> ELSE <<>>

\* len([r for r in rolls if r in faces])
InRange(s, faces) == Cardinality({i \in 1..Len(s) : s[i] \in faces})

RangeLines(s) ==
    << Line("range_low", InRange(s, {1, 2}), Len(s)),
       Line("range_mid", InRange(s, {3, 4}), Len(s)),
       Line("range_high", InRange(s, {5, 6}), Len(s)) >>

\* the maximum taken before current_consecutive is incremented
RunStep_stale_max(s, i, st) ==
    IF s[i] = s[i - 1]
    THEN [st EXCEPT !.current_consecutive = @ + 1,
                    !.max_consecutive =
                        IF st.current_consecutive > @
                        THEN st.current_consecutive ELSE @]
    ELSE [st EXCEPT !.consecutive_same =
                        IF st.current_consecutive > 1 THEN @ + 1 ELSE @,
                    !.current_consecutive = 1]

\* one iteration of the loop over i in range(1, len(rolls)); i is 1-based here
RunStep(s, i, st) ==
    IF s[i] = s[i - 1]
    THEN [st EXCEPT !.current_consecutive = @ + 1,
                    !.max_consecutive =
                        IF st.current_consecutive + 1 > @
                        THEN st.current_consecutive + 1 ELSE @]
    ELSE [st EXCEPT !.consecutive_same =
                        IF st.current_consecutive > 1 THEN @ + 1 ELSE @,
                    !.current_consecutive = 1]

RECURSIVE RunLoop(_, _, _)
RunLoop(s, i, st) ==
    IF i > Len(s) THEN st ELSE RunLoop(s, i + 1, RunStep(s, i, st))

Patterns(s) ==
    RunLoop(s, 2, [consecutive_same |-> 0, max_consecutive |-> 1,
                   current_consecutive |-> 1])

PatternLines(s) ==
    LET st == Patterns(s)
    IN << Line("max_consecutive", st.max_consecutive, 0),
          Line("consecutive_same", st.consecutive_same, 0) >>

HeaderLines(s) ==
    << Line("title", 0, 0), Line("total_rolls", Len(s), 0),
       Line("frequency_header", 0, 0) >>

\* what analyze_distribution(s) prints, and how it ends
Report(s) ==
    LET N == Len(s)
    IN IF N = 0
       THEN \* count / len(rolls) for face 1 divides by zero
            [out |-> HeaderLines(s), err |-> <<>>,
             exception |-> "ZeroDivisionError"]
       ELSE LET fl == FaceLoop(1, Counter(s), N, [total |-> 0, out |-> <<>>])
            IN [out |-> HeaderLines(s) \o fl.out
                        \o << Line("chi_square", fl.total, 6 * N),
                              Line("critical_value", CriticalValueMilli, 1000),
                              Line(Verdict(fl.total, N), 0, 0) >>
                        \o StatLines(s) \o RangeLines(s) \o PatternLines(s),
                err |-> StatWarnings(s),
                exception |-> "none"]

(* ---------------------------- the program ------------------------------ *)

Texts == UNION {[1..n -> Alphabet] : n \in 0..MaxTextLen}

\* six rolls that show one face only, or every face once
ExtremeRolls ==
    {s \in [1..6 -> 1..6] :
        \/ \A i \in 1..6 : s[i] = s[1]
        \/ \A f \in 1..6 : \E i \in 1..6 : s[i] = f}

\* roll sequences parse_dice_rolls_from_input can return: every sequence of
\* at most MaxLen rolls, and the extreme sequences of six rolls
ParsedRolls == UNION {[1..n -> 1..6] : n \in 1..MaxLen} \cup ExtremeRolls

\* argument lists of a direct call of analyze_distribution
AnyRolls == UNION {[1..n -> 0..7] : n \in 0..MaxCallLen}

Init ==
    /\ pc = "main"
    /\ isatty \in BOOLEAN
    /\ input_text \in Texts
    /\ stdin_state = "unread"
    /\ rolls = <<>>
    /\ stdout = <<>>
    /\ stderr = <<>>
    /\ exit_status = <<>>
    /\ exception = "none"

\* the terminal check without its sys.exit(1)
Main_no_exit ==
    /\ pc = "main"
    /\ stderr' = IF isatty THEN stderr \o <<"usage", "usage_hint">> ELSE stderr
    /\ pc' = "parse"
    /\ UNCHANGED <<isatty, input_text, stdin_state, rolls, stdout,
                   exit_status, exception>>

\* the terminal check of the main block
Main ==
    /\ pc = "main"
    /\ IF isatty
       THEN /\ stderr' = stderr \o <<"usage", "usage_hint">>
            /\ exit_status' = <<1>>
            /\ pc' = "exited"
       ELSE /\ pc' = "parse"
            /\ UNCHANGED <<stderr, exit_status>>
    /\ UNCHANGED <<isatty, input_text, stdin_state, rolls, stdout, exception>>

\* parse_dice_rolls_from_input; sys.stdin.read() may raise
ParseDiceRollsFromInput ==
    /\ pc = "parse"
    /\ \E read_ok \in BOOLEAN :
         /\ stdin_state' = IF read_ok THEN "read" ELSE "read_error"
         /\ IF ~read_ok
            THEN /\ stderr' = stderr \o <<"error_reading_input">>
                 /\ exit_status' = <<1>>
                 /\ pc' = "exited"
                 /\ UNCHANGED rolls
            ELSE LET parsed == ToRolls(FindAll(input_text))
                 IN IF Len(parsed) = 0
                    THEN /\ stderr' = stderr
                               \o <<"no_valid_rolls", "expected_integers">>
                               \o (IF ExceptClauseCatches("SystemExit")
                                   THEN <<"error_reading_input">> ELSE <<>>)
                         /\ exit_status' = <<1>>
                         /\ pc' = "exited"
                         /\ UNCHANGED rolls
                    ELSE /\ rolls' = parsed
                         /\ pc' = "analyze"
                         /\ UNCHANGED <<stderr, exit_status>>
    /\ UNCHANGED <<isatty, input_text, stdout, exception>>

\* analyze_distribution(rolls)
AnalyzeDistribution ==
    /\ pc = "analyze"
    /\ LET r == Report(rolls)
       IN /\ stdout' = stdout \o r.out
          /\ stderr' = stderr \o r.err
          /\ exception' = r.exception
          /\ pc' = IF r.exception = "none" THEN "returned" ELSE "raised"
    /\ UNCHANGED <<isatty, input_text, stdin_state, rolls, exit_status>>

\* the script ends: status 0 after a return, 1 after an uncaught exception
ScriptEnd ==
    /\ pc \in {"returned", "raised"}
    /\ exit_status' = IF pc = "returned" THEN <<0>> ELSE <<1>>
    /\ stderr' = IF pc = "returned" THEN stderr ELSE Append(stderr, "traceback")
    /\ pc' = "exited"
    /\ UNCHANGED <<isatty, input_text, stdin_state, rolls, stdout, exception>>

Next == Main \/ ParseDiceRollsFromInput \/ AnalyzeDistribution \/ ScriptEnd

Spec == Init /\ [][Next]_vars

\* analyze_distribution applied to the sequences the parser can return
InitAnalyze ==
    /\ pc = "analyze"
    /\ isatty = FALSE
    /\ input_text = <<>>
    /\ stdin_state = "read"
    /\ rolls \in ParsedRolls
    /\ stdout = <<>>
    /\ stderr = <<>>
    /\ exit_status = <<>>
    /\ exception = "none"

NextAnalyze == AnalyzeDistribution

SpecAnalyze == InitAnalyze /\ [][NextAnalyze]_vars

\* analyze_distribution called directly, with any list of small integers
InitCall ==
    /\ pc = "analyze"
    /\ isatty = FALSE
    /\ input_text = <<>>
    /\ stdin_state = "unread"
    /\ rolls \in AnyRolls
    /\ stdout = <<>>
    /\ stderr = <<>>
    /\ exit_status = <<>>
    /\ exception = "none"

NextCall == AnalyzeDistribution

SpecCall == InitCall /\ [][NextCall]_vars

(* ---------------------------- properties ------------------------------- *)

\* positions of the printed lines of one kind
Printed(kind) == {i \in 1..Len(stdout) : stdout[i].line = kind}

\* the only printed line of a kind
TheLine(kind) == stdout[CHOOSE i \in Printed(kind) : TRUE]

\* number of occurrences of face f in s
CountOf(s, f) == Cardinality({i \in 1..Len(s) : s[i] = f})

\* s[i..j] is a run: all its values are equal
IsRun(s, i, j) == \A k \in i..j : s[k] = s[i]

\* positions at which a maximal run of length > 1 starts
StreakStarts(s) ==
    {i \in 1..(Len(s) - 1) :
        /\ s[i + 1] = s[i]
        /\ (i = 1 \/ s[i - 1] # s[i])}

\* length of the longest run of s
LongestRun(s) ==
    CHOOSE m \in 1..Len(s) :
        /\ \E i \in 1..Len(s) : i + m - 1 <= Len(s) /\ IsRun(s, i, i + m - 1)
        /\ \A i \in 1..Len(s) : \A j \in i..Len(s) :
               IsRun(s, i, j) => j - i + 1 <= m

\* C1: after the analysis of a non-empty sequence of rolls in 1..6, the
\* printed run count is the number of maximal runs of equal consecutive
\* values of length > 1, wherever they lie in the sequence.
C1_RunCount ==
    pc = "returned" =>
        /\ Cardinality(Printed("consecutive_same")) = 1
        /\ TheLine("consecutive_same").x = Cardinality(StreakStarts(rolls))

\* C2: after the analysis the printed maximum run is the length of the
\* longest run of equal consecutive values; it is at least 1, it is N when
\* all values are equal and 1 when no two adjacent values are equal.
C2_MaxRun ==
    pc = "returned" =>
        /\ Cardinality(Printed("max_consecutive")) = 1
        /\ LET m == TheLine("max_consecutive").x
               N == Len(rolls)
           IN /\ m = LongestRun(rolls)
              /\ m >= 1
              /\ IsRun(rolls, 1, N) => m = N
              /\ (\A i \in 1..(N - 1) : rolls[i] # rolls[i + 1]) => m = 1

\* a run of 2 or more that is not the whole sequence has been measured
C2_Witness ==
    /\ pc = "returned"
    /\ Len(rolls) >= 4
    /\ TheLine("max_consecutive").x >= 2
    /\ TheLine("max_consecutive").x < Len(rolls)
    /\ rolls[Len(rolls)] = rolls[Len(rolls) - 1]

DieFace(c) == CHOOSE n \in 1..6 : <<c, n>> \in
    {<<"1", 1>>, <<"2", 2>>, <<"3", 3>>, <<"4", 4>>, <<"5", 5>>, <<"6", 6>>}

IsDigitChar(c) == c \in Digits

IsLetterDigitOrUnderscore(c) == c \in Digits \cup Letters \cup {"_"}

\* positions of the digits 1-6 of t with no neighbour satisfying Adjacent
StandalonePositions(t, Adjacent(_)) ==
    {p \in 1..Len(t) :
        /\ t[p] \in DiceDigits
        /\ (p = 1 \/ ~Adjacent(t[p - 1]))
        /\ (p = Len(t) \/ ~Adjacent(t[p + 1]))}

\* the faces written at the given positions of t, in order of appearance
RECURSIVE FacesAt(_, _, _)
FacesAt(t, p, positions) ==
    IF p > Len(t) THEN <<>>
    ELSE IF p \in positions THEN <<DieFace(t[p])>> \o FacesAt(t, p + 1, positions)
    ELSE FacesAt(t, p + 1, positions)

StandaloneFrom(t, p, Adjacent(_)) == FacesAt(t, p, StandalonePositions(t, Adjacent))

\* C3 as stated: the rolls extracted from the text are the digits 1-6 that
\* are not adjacent to another digit, in order; a neighbouring non-digit
\* (letter, underscore, sign, punctuation) does not disqualify a digit.
C3_DigitAdjacency ==
    /\ pc \in {"analyze", "returned"} =>
           rolls = StandaloneFrom(input_text, 1, IsDigitChar)
    /\ (stdin_state = "read" /\ pc = "exited" /\ stdout = <<>>) =>
           StandaloneFrom(input_text, 1, IsDigitChar) = <<>>

\* C3 amended: the rolls extracted from the text are the digits 1-6 that
\* are not adjacent to a word character (letter, digit or underscore), in
\* order; the extraction fails exactly when there is no such digit.
C3_WordAdjacency ==
    /\ pc \in {"analyze", "returned"} =>
           rolls = StandaloneFrom(input_text, 1, IsLetterDigitOrUnderscore)
    /\ (stdin_state = "read" /\ pc = "exited" /\ stdout = <<>>) =>
           StandaloneFrom(input_text, 1, IsLetterDigitOrUnderscore) = <<>>

\* a text with a digit 1-6 next to a letter or underscore and next to no
\* digit, and with another digit that was extracted
C3_Witness ==
    /\ pc = "analyze"
    /\ Len(rolls) = 1
    /\ \E p \in 1..(Len(input_text) - 1) :
           /\ input_text[p] \in {"a", "_"}
           /\ input_text[p + 1] \in DiceDigits
           /\ (p + 1 = Len(input_text) \/ ~IsDigitChar(input_text[p + 2]))

\* C4: a run on exactly one roll ends in InsufficientSampleError, with no
\* standard deviation reported and nothing of the report on standard output.
C4_InsufficientSample ==
    (pc = "exited" /\ Len(rolls) = 1) =>
        /\ exception = "InsufficientSampleError"
        /\ Printed("std_dev") = {}
        /\ stdout = <<>>

\* C5: when the input was read and holds no valid 1-6 token, the program has
\* exited with a non-zero status, the error stream holds the "no valid dice
\* rolls" diagnostic and no read-error report, the analysis was not entered
\* and standard output is empty.
C5_EmptyInput ==
    (/\ stdin_state = "read"
     /\ StandaloneFrom(input_text, 1, IsLetterDigitOrUnderscore) = <<>>) =>
        /\ pc = "exited"
        /\ exit_status # <<>>
        /\ exit_status # <<0>>
        /\ \E i \in 1..Len(stderr) : stderr[i] = "no_valid_rolls"
        /\ \A i \in 1..Len(stderr) : stderr[i] # "error_reading_input"
        /\ stdout = <<>>
        /\ rolls = <<>>

\* a non-empty text without any valid token has been read
C5_Witness ==
    /\ stdin_state = "read"
    /\ pc = "exited"
    /\ rolls = <<>>
    /\ \E p \in 1..Len(input_text) : input_text[p] \in DiceDigits

\* the last printed line is the last line of the report
ReportComplete ==
    /\ Len(stdout) > 0
    /\ stdout[Len(stdout)].line = "consecutive_same"
    /\ exception = "none"

\* C6: with a terminal on standard input the program prints the usage hint
\* on the error stream and exits non-zero, never reading standard input nor
\* writing to standard output; the terminal check precedes the read, the
\* read precedes the analysis, and status 0 is reached only after a complete
\* analysis.
C6_TerminalCheck ==
    /\ isatty => (stdin_state = "unread" /\ stdout = <<>> /\ rolls = <<>>)
    /\ (isatty /\ pc # "main") =>
           /\ pc = "exited"
           /\ exit_status # <<>>
           /\ exit_status # <<0>>
           /\ \E i \in 1..Len(stderr) : stderr[i] = "usage"
    /\ stdin_state # "unread" => (pc # "main" /\ ~isatty)
    /\ (pc \in {"analyze", "returned", "raised"} \/ stdout # <<>>) =>
           stdin_state = "read"
    /\ exit_status = <<0>> => ReportComplete

\* the program has refused to run on a terminal
C6_Witness ==
    /\ isatty
    /\ pc = "exited"
    /\ exit_status = <<1>>
    /\ input_text # <<>>

\* lines of the report that carry computed numbers
NumericOutput ==
    \E i \in 1..Len(stdout) :
        stdout[i].line \notin {"title", "total_rolls", "frequency_header"}

\* C7: analyze called with an empty sequence ends in EmptySequenceError and
\* analyze called with a value outside 1..6 ends in ValueOutOfRangeError; in
\* both cases no numeric report output is produced.
C7_RejectsMalformed ==
    pc # "analyze" =>
        /\ rolls = <<>> =>
               (exception = "EmptySequenceError" /\ ~NumericOutput)
        /\ (\E i \in 1..Len(rolls) : rolls[i] \notin 1..6) =>
               (exception = "ValueOutOfRangeError" /\ ~NumericOutput)

RECURSIVE SumRows(_)
SumRows(rows) ==
    IF rows = {} THEN 0
    ELSE LET i == CHOOSE j \in rows : TRUE
         IN stdout[i].y + SumRows(rows \ {i})

\* C8: the printed frequency table has exactly one row for every face 1..6,
\* a face absent from the rolls has count zero, and the six counts sum to N.
C8_FrequencyTable ==
    pc = "returned" =>
        /\ Cardinality(Printed("row")) = 6
        /\ \A f \in 1..6 :
               \E i \in Printed("row") :
                   /\ stdout[i].x = f
                   /\ (\A k \in 1..Len(rolls) : rolls[k] # f) => stdout[i].y = 0
        /\ SumRows(Printed("row")) = Len(rolls)

\* a table with an absent face and a face that occurs more than once
C8_Witness ==
    /\ pc = "returned"
    /\ \E i \in Printed("row") : stdout[i].y = 0
    /\ \E i \in Printed("row") : stdout[i].y >= 2
    /\ Len(rolls) >= 3

\* sum over the faces of (count(f) - N/6)^2 / (N/6), times 6 N
ChiSquareTimes6N(s) ==
    LET d(f) == 6 * CountOf(s, f) - Len(s)
    IN d(1) * d(1) + d(2) * d(2) + d(3) * d(3)
       + d(4) * d(4) + d(5) * d(5) + d(6) * d(6)

\* C9: the printed chi-square statistic is the sum over the faces of
\* (count(f) - N/6)^2 / (N/6); it is >= 0, and it is 0 exactly when every
\* face count is N/6 (so N is a multiple of 6).
C9_ChiSquare ==
    pc = "returned" =>
        /\ Cardinality(Printed("chi_square")) = 1
        /\ LET chi == TheLine("chi_square")
               N == Len(rolls)
           IN /\ chi.y > 0
              /\ chi.x * 6 * N = ChiSquareTimes6N(rolls) * chi.y
              /\ chi.x >= 0
              /\ (chi.x = 0) <=> (\A f \in 1..6 : 6 * CountOf(rolls, f) = N)
              /\ (chi.x = 0) => (N % 6 = 0)

\* a perfectly uniform sequence has been analysed
C9_Witness ==
    /\ pc = "returned"
    /\ Len(rolls) = 6
    /\ \A f \in 1..6 : CountOf(rolls, f) = 1
    /\ TheLine("chi_square").x = 0

\* C10: exactly one verdict is printed, "appears fair" exactly when the
\* chi-square statistic is strictly below 11.070 and "may not be fair"
\* otherwise.
C10_Verdict ==
    pc = "returned" =>
        /\ Cardinality(Printed("fair") \cup Printed("not_fair")) = 1
        /\ (Printed("fair") # {}) <=>
               (1000 * ChiSquareTimes6N(rolls) < 11070 * 6 * Len(rolls))

\* six equal rolls (statistic 30) have been judged not fair
C10_Witness ==
    /\ pc = "returned"
    /\ Len(rolls) = 6
    /\ IsRun(rolls, 1, 6)
    /\ Printed("not_fair") # {}
    /\ Printed("fair") = {}

====
